---- MODULE Spec2Model ----
(***************************************************************************)
(* A model of dkooll/issuor's scanner package                              *)
(* (src/internal/scanner/scanner.go): Scanner construction (New), the      *)
(* Scan orchestrator with its two category workers (runSearch), the        *)
(* completion channel, the shared cancellable context, and the paginated   *)
(* search with its extraction / prefix / skip / audience pipeline.         *)
(*                                                                         *)
(* Go strings that the code inspects character by character (repository    *)
(* names, the prefix, logins, skip entries, the organization) are          *)
(* sequences of one-character strings; strings the code only compares for  *)
(* equality (audience, author association, node IDs) are TLA+ strings.     *)
(* A nil slice is <<>> and a nil map is {}.  Item.Title and Item.CreatedAt *)
(* are copied verbatim by extractItem and are left out of Item.            *)
(***************************************************************************)
EXTENDS Integers, Sequences, FiniteSets, TLC

VARIABLES
    scn,          \* the *Scanner returned by New, or NoScanner
    newErr,       \* the error returned by New
    pages,        \* per category, the API's pages (ids of PageShape), fixed
    pcO,          \* position of the caller / Scan's own goroutine
    ctxCancelled, \* the shared context created at scanner.go:109
    pc,           \* per category, the position of its runSearch goroutine
    cursor,       \* per category, search's cursor (0 is the nil cursor)
    external,     \* per category, search's external buffer
    internal,     \* per category, search's internal buffer
    repos,        \* per category, search's repo set
    err,          \* per category, the error search returned
    wg,           \* the WaitGroup counter
    resultCh,     \* the buffered completion channel
    closed,       \* whether resultCh has been closed
    received,     \* history: the segments Scan has taken from resultCh
    res,          \* Scan's Result
    repoSet,      \* Scan's merged repository set
    retErr,       \* the error Scan returned
    prev,         \* history: <<>>, or the Result of the latest earlier
                  \* Scan that returned a nil error and the order in which
                  \* its segments arrived
    newArgs,      \* the arguments of the New call, until the caller goes
                  \* on to Scan
    requests,     \* history: per category, the Query calls of this Scan
    spawns,       \* history: per category, the runSearch goroutines this
                  \* Scan has started
    logCalls,     \* history: per category, the logger calls of this Scan
    printed,      \* cmd.run: whether the report has been printed
    runErr        \* cmd.run: the error run returned

vars == <<scn, newErr, pages, pcO, ctxCancelled, pc, cursor, external,
          internal, repos, err, wg, resultCh, closed, received, res,
          repoSet, retErr, prev, newArgs, requests, spawns, logCalls,
          printed, runErr>>

-----------------------------------------------------------------------------
(* Bounds *)

\* the largest number of pages the API holds for one category
MaxPages == 2

-----------------------------------------------------------------------------
(* Program constants *)

AudienceAll == "all"
AudienceInternal == "internal"
AudienceExternal == "external"

\* the two category runs Scan can start: isPR = FALSE and isPR = TRUE
Categories == {"issue", "pr"}

IsPR(c) == c = "pr"

\* errors are tuples; the nil error is the empty one
Nil == <<>>
NoScanner == [built |-> FALSE]
\* no New call whose arguments are still of interest
NoArgs == [called |-> FALSE]
\* the nil cursor of search's first request (scanner.go:186)
NilCursor == 0
\* context.Canceled, what Query returns once the shared context is cancelled
Canceled == <<"context canceled">>
\* the error the transport returns for category c's request after cursor k
TransportError(c, k) == <<"transport error", c, k>>

-----------------------------------------------------------------------------
(* strings *)

Space == " "

LowerChar(ch) ==
    CASE ch = "A" -> "a"
      [] ch = "B" -> "b"
      [] ch = "O" -> "o"
      [] ch = "P" -> "p"
      [] OTHER -> ch

ToLower(s) == [i \in 1..Len(s) |-> LowerChar(s[i])]

RECURSIVE TrimLeft(_)
TrimLeft(s) ==
    IF s # <<>> /\ Head(s) = Space THEN TrimLeft(Tail(s)) ELSE s

RECURSIVE TrimRight(_)
TrimRight(s) ==
    IF s # <<>> /\ s[Len(s)] = Space
    THEN TrimRight(SubSeq(s, 1, Len(s) - 1)) ELSE s

TrimSpace(s) == TrimRight(TrimLeft(s))

HasPrefix(s, prefix) ==
    /\ Len(s) >= Len(prefix)
    /\ SubSeq(s, 1, Len(prefix)) = prefix

-----------------------------------------------------------------------------
(* The API's data: search nodes and pages *)

AuthorAssociations ==
    {"MEMBER", "OWNER", "MANNEQUIN", "COLLABORATOR", "CONTRIBUTOR",
     "FIRST_TIME_CONTRIBUTOR", "FIRST_TIMER", "NONE", ""}

\* issueNode / pullRequestNode
Fragment(id, number, repo, login, assoc) ==
    [ID |-> id, Number |-> number, Repo |-> repo, Login |-> login,
     Assoc |-> assoc]

ZeroFragment == Fragment("", 0, <<>>, <<>>, "")

\* searchNode: a node of the category's own kind fills that kind's fragment
searchNode(isPR, part) ==
    IF isPR THEN [Issue |-> ZeroFragment, PullRequest |-> part]
            ELSE [Issue |-> part, PullRequest |-> ZeroFragment]

\* Issues and pull requests of a repository share one number sequence, so an
\* issue and a pull request never carry the same number: the pull requests
\* of the model are numbered from 20 + 1.
NodeOf(isPR, id, n, repo, login, assoc) ==
    searchNode(isPR, Fragment(id, IF isPR THEN 20 + n ELSE n,
                              repo, login, assoc))

RepoPA == <<"p", "a">>
RepoPB == <<"p", "b">>
RepoPC == <<"p", "c">>
\* differs from RepoPA in case only: HasPrefix is case-sensitive
RepoUpperPA == <<"P", "a">>

LoginBo == <<"B", "o">>
LoginbO == <<"b", "O">>
LoginAl == <<"a", "l">>
LoginSpaceBo == <<" ", "b", "o">>
NoLogin == <<>>

\* The two page shapes the API can hold.  A shape is instantiated for a
\* category: its nodes are of the category's kind, except one node of shape
\* 1 that is of the other kind (its fragment for this run is zero).  Shape 1
\* touches RepoPA only, shape 2 RepoPB and RepoPC.
PageIds == {1, 2}

PageNodes(isPR, id) ==
    CASE id = 1 ->
           << NodeOf(isPR, "n1", 1, RepoPA, LoginBo, "MEMBER"),
              NodeOf(isPR, "", 2, RepoPB, LoginAl, "OWNER"),
              NodeOf(isPR, "n3", 3, RepoPA, LoginAl, "NONE"),
              NodeOf(~isPR, "n4", 4, RepoPB, LoginAl, "NONE"),
              NodeOf(isPR, "n5", 5, RepoUpperPA, LoginAl, "COLLABORATOR"),
              NodeOf(isPR, "n6", 6, RepoPA, NoLogin, "OWNER"),
              NodeOf(isPR, "n7", 7, RepoPA, LoginAl, "CONTRIBUTOR") >>
      [] id = 2 ->
           << NodeOf(isPR, "n8", 8, RepoPC, LoginbO, "FIRST_TIMER"),
              NodeOf(isPR, "n9", 9, RepoPB, LoginSpaceBo, "MANNEQUIN"),
              NodeOf(isPR, "n10", 10, <<>>, LoginAl, "MEMBER"),
              NodeOf(isPR, "n11", 11, RepoPB, LoginAl, "COLLABORATOR"),
              NodeOf(isPR, "n12", 12, RepoPB, LoginBo, ""),
              NodeOf(isPR, "n13", 13, RepoPB, LoginAl,
                                    "FIRST_TIME_CONTRIBUTOR") >>

\* all page sequences of 1..MaxPages pages
PageSeqs == UNION {[1..n -> PageIds] : n \in 1..MaxPages}

-----------------------------------------------------------------------------
(* Pure functions of scanner.go *)

\* a classifier that forgets collaborators
isInternalAssociationNoCollaborator(assoc) ==
    assoc \in {"MEMBER", "OWNER"}

isInternalAssociation(assoc) ==
    CASE assoc = "MEMBER" -> TRUE
      [] assoc = "OWNER" -> TRUE
      [] assoc = "COLLABORATOR" -> TRUE
      [] OTHER -> FALSE

RECURSIVE buildSkipMapFrom(_, _)
buildSkipMapFrom(users, m) ==
    IF users = <<>> THEN m
    ELSE LET u == TrimSpace(ToLower(Head(users))) IN
         buildSkipMapFrom(Tail(users), IF u = <<>> THEN m ELSE m \cup {u})

buildSkipMap(users) ==
    IF Len(users) = 0 THEN {} ELSE buildSkipMapFrom(users, {})

\* a merge that replaces the destination by the source
mergeRepoSetsOverwrite(dst, src) == src

mergeRepoSets(dst, src) == dst \cup src

Item(part) == [Repo |-> part.Repo, Number |-> part.Number, Author |-> part.Login]

\* an extractItem that looks at the repository name only
extractItemRepoOnly(node, isPR) ==
    LET part == IF isPR THEN node.PullRequest ELSE node.Issue IN
    IF part.Repo = <<>>
    THEN [ok |-> FALSE, item |-> Item(ZeroFragment), repoName |-> <<>>,
          author |-> <<>>, internalAuthor |-> FALSE]
    ELSE [ok |-> TRUE, item |-> Item(part), repoName |-> part.Repo,
          author |-> part.Login,
          internalAuthor |-> isInternalAssociation(part.Assoc)]

extractItem(node, isPR) ==
    LET part == IF isPR THEN node.PullRequest ELSE node.Issue IN
    IF part.ID = "" \/ part.Repo = <<>>
    THEN [ok |-> FALSE, item |-> Item(ZeroFragment), repoName |-> <<>>,
          author |-> <<>>, internalAuthor |-> FALSE]
    ELSE [ok |-> TRUE, item |-> Item(part), repoName |-> part.Repo,
          author |-> part.Login,
          internalAuthor |-> isInternalAssociation(part.Assoc)]

-----------------------------------------------------------------------------
(* Scanner.search: the per-node pipeline of one page *)

\* scanner.go:210, the prefix filter
PassesPrefix(s, repoName) == HasPrefix(repoName, s.cfg.RepoPrefix)

\* a skip filter that forgets strings.ToLower
SkipsCaseSensitive(s, author) ==
    /\ Cardinality(s.skipUsers) > 0
    /\ author # <<>>
    /\ author \in s.skipUsers

\* scanner.go:215-219, the skip filter
Skips(s, author) ==
    /\ Cardinality(s.skipUsers) > 0
    /\ author # <<>>
    /\ ToLower(author) \in s.skipUsers

\* an audience filter without its External branch
AudienceRejectsInternalOnly(s, internalAuthor) ==
    s.cfg.Audience = AudienceInternal /\ ~internalAuthor

\* scanner.go:221-226, the audience filter
AudienceRejects(s, internalAuthor) ==
    \/ s.cfg.Audience = AudienceInternal /\ ~internalAuthor
    \/ s.cfg.Audience = AudienceExternal /\ internalAuthor

\* tracking placed after the skip filter
TrackRepoUnlessSkipped(s, rs, x) ==
    IF Skips(s, x.author) THEN rs ELSE rs \cup {x.repoName}

\* scanner.go:213, repository tracking: the run's repo set after a node that
\* passed the prefix filter, whatever the later filters decide
TrackRepo(s, rs, x) == rs \cup {x.repoName}

\* a loop body that puts a surviving item at the front of its buffer
ProcessNodePrepends(s, isPR, acc, node) ==
    LET x == extractItem(node, isPR) IN
    IF ~x.ok THEN acc
    ELSE IF ~PassesPrefix(s, x.repoName) THEN acc
    ELSE LET tracked == [acc EXCEPT !.repos = TrackRepo(s, acc.repos, x)] IN
         IF Skips(s, x.author) THEN tracked
         ELSE IF AudienceRejects(s, x.internalAuthor) THEN tracked
         ELSE IF x.internalAuthor
              THEN [tracked EXCEPT !.internal = <<x.item>> \o @]
              ELSE [tracked EXCEPT !.external = <<x.item>> \o @]

\* the body of the loop over q.Search.Nodes, on the run's accumulators
\* acc = [external, internal, repos]
ProcessNode(s, isPR, acc, node) ==
    LET x == extractItem(node, isPR) IN
    IF ~x.ok THEN acc
    ELSE IF ~PassesPrefix(s, x.repoName) THEN acc
    ELSE LET tracked == [acc EXCEPT !.repos = TrackRepo(s, acc.repos, x)] IN
         IF Skips(s, x.author) THEN tracked
         ELSE IF AudienceRejects(s, x.internalAuthor) THEN tracked
         ELSE IF x.internalAuthor
              THEN [tracked EXCEPT !.internal = Append(@, x.item)]
              ELSE [tracked EXCEPT !.external = Append(@, x.item)]

RECURSIVE ProcessNodes(_, _, _, _)
ProcessNodes(s, isPR, acc, nodes) ==
    IF nodes = <<>> THEN acc
    ELSE ProcessNodes(s, isPR, ProcessNode(s, isPR, acc, Head(nodes)),
                      Tail(nodes))

\* the page the API returns for a request carrying cursor k, and whether
\* another page follows it (PageInfo.HasNextPage); EndCursor is k + 1
QueryPage(c, k) == PageNodes(IsPR(c), pages[c][k + 1])
HasNextPage(c, k) == k + 1 < Len(pages[c])
\* PageInfo.EndCursor of the page returned for cursor k
EndCursor(c, k) == k + 1
\* Search.IssueCount, the API's count of all matches of the category
IssueCount(c) == Len(pages[c])

\* a search that keeps requesting with the cursor it has
AdvanceCursorStuck(cur, endCursor) == cur

\* scanner.go:238, cursor = &q.Search.PageInfo.EndCursor
AdvanceCursor(cur, endCursor) == endCursor

\* one Query call: the cursor it carried, whether the context was already
\* cancelled when it was made, and whether it returned a page
Request(k, ctxDone, ok) == [cursor |-> k, ctxDone |-> ctxDone, ok |-> ok]

\* scanner.go:200-202, the logger call after a page: the page's node count
\* and the API's total
LogCall(c, nodes) == [items |-> Len(nodes), total |-> IssueCount(c)]

\* scanner.go:200-202, if s.logger != nil { s.logger(...) }: the logger's
\* calls after a page
Logged(s, calls, c, nodes) ==
    IF s.logger THEN Append(calls, LogCall(c, nodes)) ELSE calls

-----------------------------------------------------------------------------
(* New *)

OrgInputs == {<<"a">>, <<" ">>, <<>>}
PrefixInputs == {<<"p">>, <<" ">>, <<>>}
AudienceInputs == {"all", "internal", "external", "", "bogus"}
SkipInputs == { <<>>, << <<" ", "B", "O", " ">>, <<" ">> >> }

Config(org, prefix, skip, issues, prs, aud) ==
    [Organization |-> org, RepoPrefix |-> prefix, SkipUsers |-> skip,
     IncludeIssues |-> issues, IncludePRs |-> prs, Audience |-> aud]

\* a New that leaves a Config with neither include flag as it is
DefaultedAudienceOnly(cfg) ==
    [cfg EXCEPT !.Audience = IF @ = "" THEN AudienceAll ELSE @]

\* scanner.go:77-83, the defaults New fills in
Defaulted(cfg) ==
    LET both == ~cfg.IncludeIssues /\ ~cfg.IncludePRs IN
    [cfg EXCEPT !.IncludeIssues = IF both THEN TRUE ELSE @,
                !.IncludePRs = IF both THEN TRUE ELSE @,
                !.Audience = IF @ = "" THEN AudienceAll ELSE @]

\* a New that compares the organization and the prefix with "" untrimmed
NewErrorUntrimmed(cfg, graphNil) ==
    IF graphNil THEN <<"github graphql client is required">>
    ELSE IF cfg.Organization = <<>>
         THEN <<"organization is required">>
    ELSE IF cfg.RepoPrefix = <<>>
         THEN <<"repository prefix is required">>
    ELSE IF Defaulted(cfg).Audience \notin
                {AudienceAll, AudienceInternal, AudienceExternal}
         THEN <<"invalid audience">>
    ELSE Nil

\* the error New returns for cfg and the transport (graphNil: none supplied)
NewError(cfg, graphNil) ==
    IF graphNil THEN <<"github graphql client is required">>
    ELSE IF TrimSpace(cfg.Organization) = <<>>
         THEN <<"organization is required">>
    ELSE IF TrimSpace(cfg.RepoPrefix) = <<>>
         THEN <<"repository prefix is required">>
    ELSE IF Defaulted(cfg).Audience \notin
                {AudienceAll, AudienceInternal, AudienceExternal}
         THEN <<"invalid audience">>
    ELSE Nil

\* scanner.go:99-103, the option WithLogger(fn) applied to the Scanner
\* (93-95); fn is FALSE for a nil func
WithLogger(s, fn) == [s EXCEPT !.logger = fn]

NewScanner(cfg) ==
    [built |-> TRUE, cfg |-> Defaulted(cfg),
     skipUsers |-> buildSkipMap(cfg.SkipUsers), logger |-> FALSE]

-----------------------------------------------------------------------------
(* Scan *)

\* the Result Scan starts from (scanner.go:112-120)
NewResult(s) ==
    [ExternalIssues |-> <<>>, InternalIssues |-> <<>>,
     ExternalPRs |-> <<>>, InternalPRs |-> <<>>, TotalRepos |-> 0,
     IncludeIssues |-> s.cfg.IncludeIssues, IncludePRs |-> s.cfg.IncludePRs,
     Audience |-> s.cfg.Audience]

ZeroResult ==
    [ExternalIssues |-> <<>>, InternalIssues |-> <<>>,
     ExternalPRs |-> <<>>, InternalPRs |-> <<>>, TotalRepos |-> 0,
     IncludeIssues |-> FALSE, IncludePRs |-> FALSE, Audience |-> ""]

\* a Scan that starts both workers whatever the flags
EnabledAlways(s, c) == TRUE

\* scanner.go:143-150, if s.cfg.IncludeIssues / if s.cfg.IncludePRs
Enabled(s, c) == IF IsPR(c) THEN s.cfg.IncludePRs ELSE s.cfg.IncludeIssues

\* the segment runSearch sends (scanner.go:140)
Segment(c) ==
    [external |-> external[c], internal |-> internal[c], repos |-> repos[c],
     isPR |-> IsPR(c), err |-> err[c]]

\* a runSearch / Scan that never cancels the context
cancelForgotten(cancelled) == cancelled

\* scanner.go:138, cancel() on the shared context
cancel(cancelled) == TRUE

\* a receive loop that looks at the error of issue segments only
SegmentFailsIssueOnly(seg) == seg.err # Nil /\ ~seg.isPR

\* scanner.go:158, whether the loop over resultCh returns on this segment
SegmentFails(seg) == seg.err # Nil

\* a closer that closes resultCh without waiting for the workers
WaitSkipped(n) == TRUE

\* scanner.go:153, wg.Wait() returns
WaitDone(n) == n = 0

\* a merge whose PR branch appends to the issue buckets as well
MergeSegmentOneBucket(r, seg) ==
    [r EXCEPT !.ExternalIssues = @ \o seg.external,
              !.InternalIssues = @ \o seg.internal]

\* scanner.go:162-168, appending a segment's buffers to the Result
MergeSegment(r, seg) ==
    IF seg.isPR
    THEN [r EXCEPT !.ExternalPRs = @ \o seg.external,
                   !.InternalPRs = @ \o seg.internal]
    ELSE [r EXCEPT !.ExternalIssues = @ \o seg.external,
                   !.InternalIssues = @ \o seg.internal]

\* scanner.go:171
TotalRepos(rs) == Cardinality(rs)

\* a completion channel one slot short of the number of workers
ResultChCapShort == Cardinality(Categories) - 1

\* scanner.go:131, make(chan segment, 2)
ResultChCap == 2

Init ==
    /\ scn = NoScanner
    /\ newErr = Nil
    /\ pages \in [Categories -> PageSeqs]
    /\ pcO = "new"
    /\ ctxCancelled = FALSE
    /\ pc = [c \in Categories |-> "none"]
    /\ cursor = [c \in Categories |-> NilCursor]
    /\ external = [c \in Categories |-> <<>>]
    /\ internal = [c \in Categories |-> <<>>]
    /\ repos = [c \in Categories |-> {}]
    /\ err = [c \in Categories |-> Nil]
    /\ wg = 0
    /\ resultCh = <<>>
    /\ closed = FALSE
    /\ received = <<>>
    /\ res = ZeroResult
    /\ repoSet = {}
    /\ retErr = Nil
    /\ prev = <<>>
    /\ newArgs = NoArgs
    /\ requests = [c \in Categories |-> <<>>]
    /\ spawns = [c \in Categories |-> 0]
    /\ logCalls = [c \in Categories |-> <<>>]
    /\ printed = FALSE
    /\ runErr = Nil

scanVars == <<ctxCancelled, pc, cursor, external, internal, repos, err, wg,
              resultCh, closed, received, res, repoSet, retErr, prev,
              requests, spawns, logCalls>>

runVars == <<printed, runErr>>

\* New(cfg, graph) fails: no Scanner is returned
NewFails(cfg, graphNil) ==
    /\ NewError(cfg, graphNil) # Nil
    /\ newErr' = NewError(cfg, graphNil)
    /\ pcO' = "failed"
    /\ newArgs' = [called |-> TRUE, cfg |-> cfg, graphNil |-> graphNil]
    /\ UNCHANGED <<scn, pages, scanVars, runVars>>

\* New(cfg, graph) succeeds
NewSucceeds(cfg, graphNil) ==
    /\ NewError(cfg, graphNil) = Nil
    /\ scn' = NewScanner(cfg)
    /\ pcO' = "idle"
    /\ newArgs' = [called |-> TRUE, cfg |-> cfg, graphNil |-> graphNil]
    /\ UNCHANGED <<newErr, pages, scanVars, runVars>>

\* the caller constructs the Scanner
New ==
    /\ pcO = "new"
    /\ \E org \in OrgInputs, prefix \in PrefixInputs, skip \in SkipInputs,
          issues \in BOOLEAN, prs \in BOOLEAN, aud \in AudienceInputs,
          graphNil \in BOOLEAN :
          \/ NewFails(Config(org, prefix, skip, issues, prs, aud), graphNil)
          \/ NewSucceeds(Config(org, prefix, skip, issues, prs, aud), graphNil)

\* Scan up to its receive loop: the context, the Result, the channel, and
\* the goroutines of the enabled categories and of the closer
StartScan ==
    /\ ctxCancelled' = FALSE
    /\ res' = NewResult(scn)
    /\ repoSet' = {}
    /\ resultCh' = <<>>
    /\ closed' = FALSE
    /\ received' = <<>>
    /\ retErr' = Nil
    /\ pc' = [c \in Categories |-> IF Enabled(scn, c) THEN "fetch" ELSE "none"]
    /\ wg' = Cardinality({c \in Categories : Enabled(scn, c)})
    /\ cursor' = [c \in Categories |-> NilCursor]
    /\ external' = [c \in Categories |-> <<>>]
    /\ internal' = [c \in Categories |-> <<>>]
    /\ repos' = [c \in Categories |-> {}]
    /\ err' = [c \in Categories |-> Nil]
    /\ pcO' = "recv"
    /\ spawns' = [c \in Categories |-> IF Enabled(scn, c) THEN 1 ELSE 0]
    /\ requests' = [c \in Categories |-> <<>>]
    /\ logCalls' = [c \in Categories |-> <<>>]
    /\ newArgs' = NoArgs
    /\ UNCHANGED <<newErr, pages, runVars>>

\* the first Scan call on the Scanner
ScanStart ==
    /\ pcO = "idle"
    /\ StartScan
    /\ prev' = prev
    /\ scn' = scn

\* what prev keeps of a Scan that returned a nil error
Outcome ==
    [res |-> res,
     order |-> [i \in 1..Len(received) |-> received[i].isPR]]

\* a later Scan call on the same Scanner, over the same API data.  It is
\* taken once the goroutines of the earlier call have ended: they share
\* nothing with the new call (its context, channel and buffers are fresh).
ScanAgain ==
    /\ pcO = "returned"
    /\ \A c \in Categories : pc[c] \in {"none", "done"}
    /\ closed
    /\ StartScan
    /\ prev' = IF retErr = Nil THEN <<Outcome>> ELSE prev
    /\ scn' = scn

\* a search that takes the context's cancellation for the end of the pages:
\* it leaves the loop and returns what it has with a nil error
SearchFailsCanceledEndsLoop(c, e) ==
    /\ external' = IF e = Canceled THEN external
                   ELSE [external EXCEPT ![c] = <<>>]
    /\ internal' = IF e = Canceled THEN internal
                   ELSE [internal EXCEPT ![c] = <<>>]
    /\ repos' = IF e = Canceled THEN repos ELSE [repos EXCEPT ![c] = {}]
    /\ err' = IF e = Canceled THEN err ELSE [err EXCEPT ![c] = e]
    /\ pc' = [pc EXCEPT ![c] = IF e = Canceled THEN "send" ELSE "cancel"]
    /\ requests' = [requests EXCEPT
                       ![c] = Append(@, Request(cursor[c], ctxCancelled, FALSE))]
    /\ UNCHANGED <<scn, newErr, pages, pcO, ctxCancelled, cursor, wg,
                   resultCh, closed, received, res, repoSet, retErr, prev,
                   newArgs, spawns, logCalls, printed, runErr>>

\* a search that returns its buffers along with the error
SearchFailsKeepsBuffers(c, e) ==
    /\ err' = [err EXCEPT ![c] = e]
    /\ pc' = [pc EXCEPT ![c] = "cancel"]
    /\ requests' = [requests EXCEPT
                       ![c] = Append(@, Request(cursor[c], ctxCancelled, FALSE))]
    /\ UNCHANGED <<scn, newErr, pages, pcO, ctxCancelled, cursor, wg,
                   resultCh, closed, received, res, repoSet, retErr, prev,
                   newArgs, spawns, logCalls, printed, runErr, external,
                   internal, repos>>

\* search: Query fails with e; search returns (nil, nil, nil, e)
SearchFails(c, e) ==
    /\ external' = [external EXCEPT ![c] = <<>>]
    /\ internal' = [internal EXCEPT ![c] = <<>>]
    /\ repos' = [repos EXCEPT ![c] = {}]
    /\ err' = [err EXCEPT ![c] = e]
    /\ pc' = [pc EXCEPT ![c] = "cancel"]
    /\ requests' = [requests EXCEPT
                       ![c] = Append(@, Request(cursor[c], ctxCancelled, FALSE))]
    /\ UNCHANGED <<scn, newErr, pages, pcO, ctxCancelled, cursor, wg,
                   resultCh, closed, received, res, repoSet, retErr, prev,
                   newArgs, spawns, logCalls, printed, runErr>>

\* a page request on the cancelled context.  search does not look at the
\* context itself: it calls Query, and the transport (net/http under
\* githubv4) refuses a request whose context is already cancelled.  A call
\* in flight when the context is cancelled either completed (FetchPage or
\* FetchFails taken before the cancellation) or is refused (this action).
FetchCanceled(c) ==
    /\ pc[c] = "fetch"
    /\ ctxCancelled
    /\ SearchFails(c, Canceled)

\* a page request the transport fails
FetchFails(c) ==
    /\ pc[c] = "fetch"
    /\ ~ctxCancelled
    /\ SearchFails(c, TransportError(c, cursor[c]))

\* a search whose loop over the nodes sits in the else branch of the
\* logger check
FetchPageLogsOrProcesses(c) ==
    /\ pc[c] = "fetch"
    /\ ~ctxCancelled
    /\ LET acc == IF scn.logger
                  THEN [external |-> external[c], internal |-> internal[c],
                        repos |-> repos[c]]
                  ELSE ProcessNodes(scn, IsPR(c),
                          [external |-> external[c], internal |-> internal[c],
                           repos |-> repos[c]],
                          QueryPage(c, cursor[c]))
       IN /\ external' = [external EXCEPT ![c] = acc.external]
          /\ internal' = [internal EXCEPT ![c] = acc.internal]
          /\ repos' = [repos EXCEPT ![c] = acc.repos]
    /\ requests' = [requests EXCEPT
                       ![c] = Append(@, Request(cursor[c], ctxCancelled, TRUE))]
    /\ logCalls' = [logCalls EXCEPT
                       ![c] = Logged(scn, @, c, QueryPage(c, cursor[c]))]
    /\ IF HasNextPage(c, cursor[c])
       THEN /\ cursor' = [cursor EXCEPT
                            ![c] = AdvanceCursor(@, EndCursor(c, cursor[c]))]
            /\ pc' = pc
       ELSE /\ cursor' = cursor
            /\ pc' = [pc EXCEPT ![c] = "send"]
    /\ UNCHANGED <<scn, newErr, pages, pcO, ctxCancelled, err, wg, resultCh,
                   closed, received, res, repoSet, retErr, prev, newArgs,
                   spawns, printed, runErr>>

\* a page request that succeeds, and the processing of its nodes
FetchPage(c) ==
    /\ pc[c] = "fetch"
    /\ ~ctxCancelled
    /\ LET acc == ProcessNodes(scn, IsPR(c),
                      [external |-> external[c], internal |-> internal[c],
                       repos |-> repos[c]],
                      QueryPage(c, cursor[c]))
       IN /\ external' = [external EXCEPT ![c] = acc.external]
          /\ internal' = [internal EXCEPT ![c] = acc.internal]
          /\ repos' = [repos EXCEPT ![c] = acc.repos]
    /\ requests' = [requests EXCEPT
                       ![c] = Append(@, Request(cursor[c], ctxCancelled, TRUE))]
    /\ logCalls' = [logCalls EXCEPT
                       ![c] = Logged(scn, @, c, QueryPage(c, cursor[c]))]
    /\ IF HasNextPage(c, cursor[c])
       THEN /\ cursor' = [cursor EXCEPT
                            ![c] = AdvanceCursor(@, EndCursor(c, cursor[c]))]
            /\ pc' = pc
       ELSE /\ cursor' = cursor
            /\ pc' = [pc EXCEPT ![c] = "send"]
    /\ UNCHANGED <<scn, newErr, pages, pcO, ctxCancelled, err, wg, resultCh,
                   closed, received, res, repoSet, retErr, prev, newArgs,
                   spawns, printed, runErr>>

\* runSearch: if err != nil { cancel() }
CancelOnError(c) ==
    /\ pc[c] = "cancel"
    /\ ctxCancelled' = cancel(ctxCancelled)
    /\ pc' = [pc EXCEPT ![c] = "send"]
    /\ UNCHANGED <<scn, newErr, pages, pcO, cursor, external, internal,
                   repos, err, wg, resultCh, closed, received, res, repoSet,
                   retErr, prev,
                   newArgs, requests, spawns, logCalls, printed, runErr>>

\* runSearch: the send on resultCh, then the deferred wg.Done().  Only the
\* closer reads the WaitGroup, so the two are one step.
Send(c) ==
    /\ pc[c] = "send"
    /\ Len(resultCh) < ResultChCap
    /\ resultCh' = Append(resultCh, Segment(c))
    /\ wg' = wg - 1
    /\ pc' = [pc EXCEPT ![c] = "done"]
    /\ UNCHANGED <<scn, newErr, pages, pcO, ctxCancelled, cursor, external,
                   internal, repos, err, closed, received, res, repoSet,
                   retErr, prev,
                   newArgs, requests, spawns, logCalls, printed, runErr>>

\* the closer goroutine: wg.Wait(); close(resultCh)
CloseCh ==
    /\ pcO \in {"recv", "returned"}
    /\ WaitDone(wg)
    /\ ~closed
    /\ closed' = TRUE
    /\ UNCHANGED <<scn, newErr, pages, pcO, ctxCancelled, pc, cursor,
                   external, internal, repos, err, wg, resultCh, received,
                   res, repoSet, retErr, prev,
                   newArgs, requests, spawns, logCalls, printed, runErr>>

\* the receive loop takes a segment with an error: return res, seg.err
\* (the deferred cancel() runs)
RecvError ==
    /\ pcO = "recv"
    /\ resultCh # <<>>
    /\ SegmentFails(Head(resultCh))
    /\ received' = Append(received, Head(resultCh))
    /\ resultCh' = Tail(resultCh)
    /\ retErr' = Head(resultCh).err
    /\ ctxCancelled' = cancel(ctxCancelled)
    /\ pcO' = "returned"
    /\ UNCHANGED <<scn, newErr, pages, pc, cursor, external, internal, repos,
                   err, wg, closed, res, repoSet, prev,
                   newArgs, requests, spawns, logCalls, printed, runErr>>

\* the receive loop takes a segment without error and merges it
RecvMerge ==
    /\ pcO = "recv"
    /\ resultCh # <<>>
    /\ ~SegmentFails(Head(resultCh))
    /\ received' = Append(received, Head(resultCh))
    /\ resultCh' = Tail(resultCh)
    /\ repoSet' = mergeRepoSets(repoSet, Head(resultCh).repos)
    /\ res' = MergeSegment(res, Head(resultCh))
    /\ UNCHANGED <<scn, newErr, pages, pcO, ctxCancelled, pc, cursor,
                   external, internal, repos, err, wg, closed, retErr, prev,
                   newArgs, requests, spawns, logCalls, printed, runErr>>

\* the receive loop ends on the closed, empty channel: return res, nil
\* (the deferred cancel() runs)
ScanReturns ==
    /\ pcO = "recv"
    /\ resultCh = <<>>
    /\ closed
    /\ res' = [res EXCEPT !.TotalRepos = TotalRepos(repoSet)]
    /\ retErr' = Nil
    /\ ctxCancelled' = cancel(ctxCancelled)
    /\ pcO' = "returned"
    /\ UNCHANGED <<scn, newErr, pages, pc, cursor, external, internal, repos,
                   err, wg, resultCh, closed, received, repoSet, prev,
                   newArgs, requests, spawns, logCalls, printed, runErr>>

Next ==
    \/ New
    \/ ScanStart
    \/ \E c \in Categories :
          \/ FetchCanceled(c)
          \/ FetchFails(c)
          \/ FetchPage(c)
          \/ CancelOnError(c)
          \/ Send(c)
    \/ CloseCh
    \/ RecvError
    \/ RecvMerge
    \/ ScanReturns

Spec == Init /\ [][Next]_vars

\* the same, with repeated Scan calls on the Scanner
NextRepeat == Next \/ ScanAgain

SpecRepeat == Init /\ [][NextRepeat]_vars

\* New with the option WithLogger(fn), fn not nil: the loop over opts
\* (scanner.go:93-95) that ends New, as a step of its own
NewAppliesWithLogger ==
    /\ pcO = "idle"
    /\ newArgs.called
    /\ ~scn.logger
    /\ scn' = WithLogger(scn, TRUE)
    /\ UNCHANGED <<newErr, pages, pcO, newArgs, scanVars, runVars>>

\* New with or without a logger, and one Scan
NextLogger == Next \/ NewAppliesWithLogger

SpecLogger == Init /\ [][NextLogger]_vars

-----------------------------------------------------------------------------
(* cmd: run *)

\* a run that goes on to the report whatever Scan returned
ReturnsOnNever(e) == FALSE

\* root.go:97-99 and 102-104, if err != nil { return err }
ReturnsOn(e) == e # Nil

\* run: scanner.New returned an error, which run returns
RunNewFails ==
    /\ pcO = "failed"
    /\ ReturnsOn(newErr)
    /\ runErr' = newErr
    /\ pcO' = "exit"
    /\ UNCHANGED <<scn, newErr, pages, newArgs, scanVars, printed>>

\* run: scn.Scan returned an error, which run returns
RunScanFails ==
    /\ pcO = "returned"
    /\ ReturnsOn(retErr)
    /\ runErr' = retErr
    /\ pcO' = "exit"
    /\ UNCHANGED <<scn, newErr, pages, newArgs, scanVars, printed>>

\* run: report.New(...).Print(res), return nil
RunPrints ==
    /\ pcO = "returned"
    /\ ~ReturnsOn(retErr)
    /\ printed' = TRUE
    /\ runErr' = Nil
    /\ pcO' = "exit"
    /\ UNCHANGED <<scn, newErr, pages, newArgs, scanVars>>

\* the command: New, one Scan, and the report or the error
NextRun == Next \/ RunNewFails \/ RunScanFails \/ RunPrints

SpecRun == Init /\ [][NextRun]_vars

\* the steps of category c's runSearch goroutine
Worker(c) ==
    \/ FetchCanceled(c)
    \/ FetchFails(c)
    \/ FetchPage(c)
    \/ CancelOnError(c)
    \/ Send(c)

\* the steps of Scan's receive loop
Receive == RecvError \/ RecvMerge \/ ScanReturns

\* Spec under fair scheduling of the goroutines, every Query call returning:
\* each worker goes on while it can, the closer closes the channel once the
\* WaitGroup is at zero, and Scan's loop receives while there is something
\* to receive.  Nothing is required of the caller of New and Scan.
Fairness ==
    /\ \A c \in Categories : WF_vars(Worker(c))
    /\ WF_vars(CloseCh)
    /\ WF_vars(Receive)

FairSpec == Spec /\ Fairness

-----------------------------------------------------------------------------
(* Claims *)

Returned == pcO = "returned"
Succeeded == pcO = "returned" /\ retErr = Nil

Spawned == {c \in Categories : pc[c] # "none"}

\* the categories whose segment Scan has taken from resultCh
ReceivedFrom ==
    {c \in Categories : \E i \in 1..Len(received) : received[i].isPR = IsPR(c)}

\* C1: once Scan has returned, if a page fetch of some category returned an
\* error, the error Scan returned is not nil.
TheoremC1 ==
    (Returned /\ \E c \in Categories : err[c] # Nil) => retErr # Nil

\* C1's case: one category's fetch failed after the other category's
\* segment had been merged into the Result, and Scan returned an error.
WitnessC1 ==
    /\ Returned
    /\ Len(received) = 2
    /\ received[1].err = Nil
    /\ received[1].external # <<>>
    /\ err["issue"] # Nil
    /\ retErr # Nil

\* C2: with both categories running, when one category's fetch failed with
\* a transport error E and the sibling's fetch failed with the context's
\* cancellation error, the error Scan returned is E.
ClaimC2 ==
    \A a, b \in Categories :
        ( /\ Returned
          /\ a # b
          /\ err[a] \notin {Nil, Canceled}
          /\ err[b] = Canceled )
        => retErr = err[a]

\* C3 as stated: Scan has returned only if the segment of every spawned
\* worker has been received.
ClaimC3 == Returned => ReceivedFrom = Spawned

\* C3 amended: Scan has returned a nil error only if the segment of every
\* spawned worker has been received; it has returned a non-nil error only
\* as the error of the latest segment received, every earlier one having
\* carried none.
TheoremC3 ==
    Returned =>
        IF retErr = Nil
        THEN ReceivedFrom = Spawned
        ELSE /\ received # <<>>
             /\ received[Len(received)].err = retErr
             /\ \A i \in 1..(Len(received) - 1) : received[i].err = Nil

\* C3's case: Scan returned on an errored segment while the other worker's
\* segment was still outstanding; that worker has since sent it and ended.
WitnessC3 ==
    /\ Returned
    /\ retErr # Nil
    /\ Cardinality(Spawned) = 2
    /\ Len(received) = 1
    /\ Len(resultCh) = 1
    /\ \A c \in Categories : pc[c] = "done"

\* C4: the context is cancelled whenever a segment with an error is on the
\* completion channel or has been received, and whenever Scan has returned.
TheoremC4 ==
    /\ \A i \in 1..Len(resultCh) : resultCh[i].err # Nil => ctxCancelled
    /\ \A i \in 1..Len(received) : received[i].err # Nil => ctxCancelled
    /\ Returned => ctxCancelled

\* C4's case: a worker's fetch failed with a transport error and its segment
\* is on the channel, not yet received, Scan still in its loop.
WitnessC4 ==
    /\ pcO = "recv"
    /\ \E i \in 1..Len(resultCh) : resultCh[i].err \notin {Nil, Canceled}
    /\ ctxCancelled

-----------------------------------------------------------------------------
(* What the claims about the Result speak of, stated on the API's data *)

RECURSIVE Flatten(_)
Flatten(ss) == IF ss = <<>> THEN <<>> ELSE Head(ss) \o Flatten(Tail(ss))

\* every node delivered to category c's run when it fetches all its pages,
\* in delivery order
Delivered(c) ==
    Flatten([i \in 1..Len(pages[c]) |-> PageNodes(IsPR(c), pages[c][i])])

\* the fragment of a node that category c's run reads
Frag(c, node) == IF IsPR(c) THEN node.PullRequest ELSE node.Issue

Extracts(c, node) == Frag(c, node).ID # "" /\ Frag(c, node).Repo # <<>>

PrefixOk(c, node) ==
    /\ Extracts(c, node)
    /\ HasPrefix(Frag(c, node).Repo, scn.cfg.RepoPrefix)

\* the configured skip-user list, each entry lower-cased and trimmed
SkipEntries ==
    {TrimSpace(ToLower(scn.cfg.SkipUsers[i])) : i \in 1..Len(scn.cfg.SkipUsers)}

SkipMatches(c, node) ==
    /\ Frag(c, node).Login # <<>>
    /\ ToLower(Frag(c, node).Login) \in SkipEntries

InternalAssociations == {"OWNER", "MEMBER", "COLLABORATOR"}

IsInternal(c, node) == Frag(c, node).Assoc \in InternalAssociations

AudienceOk(c, node) ==
    CASE scn.cfg.Audience = AudienceInternal -> IsInternal(c, node)
      [] scn.cfg.Audience = AudienceExternal -> ~IsInternal(c, node)
      [] OTHER -> TRUE

Survives(c, node) ==
    PrefixOk(c, node) /\ ~SkipMatches(c, node) /\ AudienceOk(c, node)

ItemOf(c, node) ==
    [Repo |-> Frag(c, node).Repo, Number |-> Frag(c, node).Number,
     Author |-> Frag(c, node).Login]

Running == {c \in Categories : Enabled(scn, c)}

BucketNames == {"ExternalIssues", "InternalIssues", "ExternalPRs", "InternalPRs"}

\* the bucket for an item of category c with the given classification
BucketOf(c, isInternal) ==
    IF IsPR(c) THEN (IF isInternal THEN "InternalPRs" ELSE "ExternalPRs")
               ELSE (IF isInternal THEN "InternalIssues" ELSE "ExternalIssues")

Range(s) == {s[i] : i \in 1..Len(s)}

Count(s, x) == Cardinality({i \in 1..Len(s) : s[i] = x})

AllItems == UNION {Range(res[b]) : b \in BucketNames}

\* the positions of Delivered(c) whose node satisfies P
Positions(c, P(_, _)) ==
    {i \in 1..Len(Delivered(c)) : P(c, Delivered(c)[i])}

\* the repo set category c's segment carried when Scan received it
SegmentRepos(c) ==
    UNION {received[i].repos :
              i \in {j \in 1..Len(received) : received[j].isPR = IsPR(c)}}

\* C5: a Scan that returns a nil error yields the four bucket sequences and
\* the TotalRepos of every earlier Scan of the same Scanner over the same
\* pages that returned a nil error, in whatever order the workers finished.
TheoremC5 ==
    (Succeeded /\ prev # <<>>) =>
        /\ \A b \in BucketNames : res[b] = prev[1].res[b]
        /\ res.TotalRepos = prev[1].res.TotalRepos

\* C5's case: two successful Scans whose segments arrived in opposite
\* orders, both categories contributing items.
WitnessC5 ==
    /\ Succeeded
    /\ prev # <<>>
    /\ Len(received) = 2
    /\ Len(prev[1].order) = 2
    /\ received[1].isPR # prev[1].order[1]
    /\ res.ExternalIssues # <<>>
    /\ res.InternalPRs # <<>>
    /\ res.TotalRepos > 1

\* C6: on a successful Scan TotalRepos is the size of the union of the two
\* runs' repo sets; it is at most the sum of their sizes and equals the sum
\* exactly when they are disjoint.
TheoremC6 ==
    Succeeded =>
        LET ri == SegmentRepos("issue")
            rp == SegmentRepos("pr")
        IN /\ res.TotalRepos = Cardinality(ri \cup rp)
           /\ res.TotalRepos <= Cardinality(ri) + Cardinality(rp)
           /\ (res.TotalRepos = Cardinality(ri) + Cardinality(rp))
                 <=> (ri \cap rp = {})

\* C6's case: both runs tracked a common repository and each one of its own.
WitnessC6 ==
    /\ Succeeded
    /\ SegmentRepos("issue") \cap SegmentRepos("pr") # {}
    /\ SegmentRepos("issue") # SegmentRepos("pr")
    /\ res.TotalRepos < Cardinality(SegmentRepos("issue"))
                           + Cardinality(SegmentRepos("pr"))

\* the repository names of the nodes delivered to c that extract and carry
\* the prefix
PrefixedRepos(c) ==
    {Frag(c, Delivered(c)[i]).Repo : i \in Positions(c, PrefixOk)}

\* C7: on a successful Scan TotalRepos is the number of distinct repository
\* names among the extracted, prefix-matching nodes of all pages of the
\* enabled categories, whatever the skip set and the audience.
TheoremC7 ==
    Succeeded =>
        res.TotalRepos = Cardinality(UNION {PrefixedRepos(c) : c \in Running})

\* C7's case: a repository is counted although the skip filter removed its
\* every item.
WitnessC7 ==
    /\ Succeeded
    /\ scn.cfg.Audience = AudienceAll
    /\ scn.skipUsers # {}
    /\ RepoPC \in repoSet
    /\ \A it \in AllItems : it.Repo # RepoPC
    /\ res.TotalRepos = 3

\* C8: on a successful Scan no bucket holds the item of a node whose
\* non-empty login, lower-cased, is a lower-cased trimmed entry of the skip
\* list; and every prefix-matching node with an empty login that the
\* audience accepts is in its bucket, whatever the skip list holds.
TheoremC8 ==
    Succeeded =>
        \A c \in Running : \A node \in Range(Delivered(c)) :
            /\ (Extracts(c, node) /\ SkipMatches(c, node))
                  => ItemOf(c, node) \notin AllItems
            /\ (PrefixOk(c, node) /\ Frag(c, node).Login = <<>>
                   /\ AudienceOk(c, node))
                  => ItemOf(c, node) \in
                        Range(res[BucketOf(c, IsInternal(c, node))])

\* C8's case: the skip list (which holds a blank entry) matched a login
\* that differs from its entry in case, and an item with an empty login is
\* in a bucket.
WitnessC8 ==
    /\ Succeeded
    /\ <<>> \in SkipEntries
    /\ \E c \in Running : \E node \in Range(Delivered(c)) :
          /\ PrefixOk(c, node)
          /\ SkipMatches(c, node)
          /\ Frag(c, node).Login \notin SkipEntries
    /\ \E it \in AllItems : it.Author = <<>>

\* C9: on a successful Scan, audience internal leaves both external buckets
\* empty, audience external leaves both internal buckets empty, and with
\* audience all every node that passes extraction, the prefix filter and
\* the skip filter has its item in a bucket.
TheoremC9 ==
    Succeeded =>
        /\ scn.cfg.Audience = AudienceInternal
              => res.ExternalIssues = <<>> /\ res.ExternalPRs = <<>>
        /\ scn.cfg.Audience = AudienceExternal
              => res.InternalIssues = <<>> /\ res.InternalPRs = <<>>
        /\ scn.cfg.Audience = AudienceAll
              => \A c \in Running : \A node \in Range(Delivered(c)) :
                    (PrefixOk(c, node) /\ ~SkipMatches(c, node))
                       => ItemOf(c, node) \in AllItems

\* C9's case: audience external, both runs were delivered internal authors'
\* nodes that pass the prefix and skip filters, and both external buckets
\* are filled.
WitnessC9 ==
    /\ Succeeded
    /\ scn.cfg.Audience = AudienceExternal
    /\ \A c \in Categories :
          \E node \in Range(Delivered(c)) :
             PrefixOk(c, node) /\ ~SkipMatches(c, node) /\ IsInternal(c, node)
    /\ res.ExternalIssues # <<>>
    /\ res.ExternalPRs # <<>>

SurvivorCount(c) ==
    IF c \in Running THEN Cardinality(Positions(c, Survives)) ELSE 0

\* C10: on a successful Scan every surviving node delivery is in exactly
\* one bucket, the one of its run's category and of its author
\* association's class (internal for Owner, Member, Collaborator), as often
\* as the node was delivered; and the buckets hold nothing else.
TheoremC10 ==
    Succeeded =>
        /\ \A c \in Running : \A node \in Range(Delivered(c)) :
              Survives(c, node) =>
                 \A b \in BucketNames :
                    Count(res[b], ItemOf(c, node)) =
                       IF b = BucketOf(c, IsInternal(c, node))
                       THEN Cardinality({i \in 1..Len(Delivered(c)) :
                                            Delivered(c)[i] = node})
                       ELSE 0
        /\ Len(res.ExternalIssues) + Len(res.InternalIssues)
             + Len(res.ExternalPRs) + Len(res.InternalPRs)
           = SurvivorCount("issue") + SurvivorCount("pr")

\* C10's case: all four buckets are filled; a collaborator's pull request
\* is internal, and issues by a mannequin and by an author without
\* association are external.
WitnessC10 ==
    /\ Succeeded
    /\ \A b \in BucketNames : res[b] # <<>>
    /\ \E it \in Range(res.InternalPRs) : it.Number = 20 + 11
    /\ \E it \in Range(res.ExternalIssues) : it.Number = 9
    /\ \E it \in Range(res.ExternalIssues) : it.Number = 12

-----------------------------------------------------------------------------
(* Claims C11-C20 *)

\* a string of white space only, the empty string included
Blank(s) == \A i \in 1..Len(s) : s[i] = Space

ValidAudiences == {AudienceAll, AudienceInternal, AudienceExternal}

\* New has been called and has returned
NewReturned == newArgs.called /\ pcO \in {"idle", "failed"}

\* New returned a configuration error and no Scanner
NewFailed == pcO = "failed" /\ newErr # Nil /\ scn = NoScanner

\* New returned a Scanner and a nil error
NewSucceeded == pcO = "idle" /\ newErr = Nil /\ scn.built

\* C11 as stated: New fails with a configuration error and returns no
\* Scanner whenever the organization is blank, the prefix is blank, no
\* transport is supplied, or the audience is not one of all, internal,
\* external; it succeeds otherwise.
ClaimC11 ==
    NewReturned =>
        IF \/ newArgs.graphNil
           \/ Blank(newArgs.cfg.Organization)
           \/ Blank(newArgs.cfg.RepoPrefix)
           \/ newArgs.cfg.Audience \notin ValidAudiences
        THEN NewFailed
        ELSE NewSucceeded

\* C11 as amended: New fails with a configuration error and returns no
\* Scanner whenever the organization is blank, the prefix is blank, no
\* transport is supplied, or the audience is neither empty nor one of all,
\* internal, external; it succeeds otherwise, an empty audience being
\* taken as all.
TheoremC11 ==
    NewReturned =>
        IF \/ newArgs.graphNil
           \/ Blank(newArgs.cfg.Organization)
           \/ Blank(newArgs.cfg.RepoPrefix)
           \/ newArgs.cfg.Audience \notin ValidAudiences \cup {""}
        THEN NewFailed
        ELSE NewSucceeded /\ (newArgs.cfg.Audience = ""
                                 => scn.cfg.Audience = AudienceAll)

\* C11's case: with a transport, an organization and a prefix, New refused
\* an audience that is neither empty nor one of the three.
WitnessC11 ==
    /\ NewReturned
    /\ ~newArgs.graphNil
    /\ ~Blank(newArgs.cfg.Organization)
    /\ ~Blank(newArgs.cfg.RepoPrefix)
    /\ newArgs.cfg.Audience = "bogus"
    /\ NewFailed

\* Scan has been called on the Scanner and has got to its receive loop
Scanning == pcO \in {"recv", "returned"}

\* scn's include flag of category c
Include(cfg, c) == IF IsPR(c) THEN cfg.IncludePRs ELSE cfg.IncludeIssues

\* C12: every Scanner New returns has at least one include flag set, a
\* Config with neither being rewritten to both and any other being kept;
\* every Scan starts the worker of exactly the categories whose effective
\* flag is set, so at least one; and the Result's include flags are the
\* effective ones.
TheoremC12 ==
    /\ scn # NoScanner =>
          \E c \in Categories : Include(scn.cfg, c)
    /\ NewReturned /\ NewSucceeded =>
          \A c \in Categories :
             Include(scn.cfg, c) =
                IF \A d \in Categories : ~Include(newArgs.cfg, d)
                THEN TRUE
                ELSE Include(newArgs.cfg, c)
    /\ Scanning =>
          /\ \E c \in Categories : spawns[c] = 1
          /\ \A c \in Categories :
                /\ spawns[c] = (IF Include(scn.cfg, c) THEN 1 ELSE 0)
                /\ spawns[c] = 0 <=> pc[c] = "none"
          /\ res.IncludeIssues = scn.cfg.IncludeIssues
          /\ res.IncludePRs = scn.cfg.IncludePRs

\* C12's case: New was given a Config with neither include flag and
\* returned a Scanner that includes both categories.
WitnessC12 ==
    /\ NewReturned
    /\ NewSucceeded
    /\ ~newArgs.cfg.IncludeIssues /\ ~newArgs.cfg.IncludePRs
    /\ scn.cfg.IncludeIssues /\ scn.cfg.IncludePRs

\* Scan has returned, every worker it started has exited and the closer
\* has closed the channel and exited
Terminated ==
    /\ pcO = "returned"
    /\ \A c \in Categories : pc[c] \in {"none", "done"}
    /\ closed

\* a worker at its send finds a free slot in the channel
SendNeverBlocks ==
    \A c \in Categories : pc[c] = "send" => Len(resultCh) < ResultChCap

\* C13: under fair scheduling, every Query call returning, either Scan is
\* never called or from some point on, for good, Scan has returned and
\* each worker and the closer have exited, also those still running when
\* Scan returned on an error; and a worker at its send never finds the
\* channel full.
TheoremC13 ==
    /\ []SendNeverBlocks
    /\ (<>[]~Scanning \/ <>[]Terminated)

\* C13's case: Scan has returned on one worker's error while the other
\* worker is still running.
WitnessC13 ==
    /\ pcO = "returned"
    /\ retErr # Nil
    /\ \E c \in Categories : pc[c] \in {"fetch", "cancel", "send"}
    /\ ~closed

\* run has returned
Exited == pcO = "exit"

\* the Scan run called returned a nil error after both its loops ended
ScanSucceeded ==
    /\ retErr = Nil
    /\ scn.built
    /\ closed
    /\ resultCh = <<>>
    /\ \A c \in Categories : pc[c] \in {"none", "done"}
    /\ res.TotalRepos = Cardinality(repoSet)

\* C14: run prints the report only once Scan has returned a nil error, and
\* then returns nil; when New or Scan returns an error, run returns that
\* error and prints nothing.
TheoremC14 ==
    /\ [](printed => Exited /\ ScanSucceeded /\ runErr = Nil)
    /\ [](Exited /\ newErr # Nil => ~printed /\ runErr = newErr)
    /\ [](Exited /\ retErr # Nil => ~printed /\ runErr = retErr)
    /\ [](Exited /\ runErr = Nil => printed)
    /\ [][printed' /\ ~printed => pcO = "returned" /\ retErr = Nil]_vars
    /\ [][printed => printed']_vars

\* C14's case: Scan returned a worker's error and run has returned it
\* without printing.
WitnessC14 ==
    /\ Exited
    /\ scn.built
    /\ retErr # Nil
    /\ runErr = retErr
    /\ ~printed

\* the Query calls of category c's run that returned a page
OkCount(c) ==
    Cardinality({i \in 1..Len(requests[c]) : requests[c][i].ok})

\* the nodes of the first n pages of category c, in delivery order
DeliveredBy(c, n) ==
    Flatten([i \in 1..n |-> PageNodes(IsPR(c), pages[c][i])])

\* the items of the nodes that survive the filters and whose author is of
\* the given class, in the nodes' order
RECURSIVE Kept(_, _, _)
Kept(c, nodes, isInternal) ==
    IF nodes = <<>> THEN <<>>
    ELSE (IF Survives(c, Head(nodes)) /\ IsInternal(c, Head(nodes)) = isInternal
          THEN <<ItemOf(c, Head(nodes))>> ELSE <<>>)
         \o Kept(c, Tail(nodes), isInternal)

\* the repositories of the nodes that pass the prefix filter
TrackedIn(c, nodes) ==
    {Frag(c, nodes[i]).Repo : i \in {j \in 1..Len(nodes) : PrefixOk(c, nodes[j])}}

\* the segments of category c, on the channel or received
SegmentsOf(c) ==
    {seg \in Range(resultCh) \cup Range(received) : seg.isPR = IsPR(c)}

ClaimC16 ==
    \A c \in Categories :
        (err[c] # Nil /\ OkCount(c) >= 1) =>
            LET nodes == DeliveredBy(c, OkCount(c)) IN
            /\ external[c] = Kept(c, nodes, FALSE)
            /\ internal[c] = Kept(c, nodes, TRUE)
            /\ repos[c] = TrackedIn(c, nodes)
            /\ \A seg \in SegmentsOf(c) :
                  /\ seg.external = Kept(c, nodes, FALSE)
                  /\ seg.internal = Kept(c, nodes, TRUE)
                  /\ seg.repos = TrackedIn(c, nodes)

\* C16 as amended: a run whose fetch failed returns the error with nil
\* buffers and a nil repo set, whatever its earlier pages had accumulated,
\* and its segment carries only the category and the error.
TheoremC16 ==
    \A c \in Categories :
        err[c] # Nil =>
            /\ external[c] = <<>>
            /\ internal[c] = <<>>
            /\ repos[c] = {}
            /\ \A seg \in SegmentsOf(c) :
                  /\ seg.err = err[c]
                  /\ seg.external = <<>>
                  /\ seg.internal = <<>>
                  /\ seg.repos = {}

\* C16's case: a run processed a page that left it items and repositories,
\* its next fetch failed, and Scan has received its segment.
WitnessC16 ==
    \E c \in Categories :
        /\ err[c] # Nil
        /\ OkCount(c) >= 1
        /\ Kept(c, DeliveredBy(c, OkCount(c)), FALSE) # <<>>
        /\ Kept(c, DeliveredBy(c, OkCount(c)), TRUE) # <<>>
        /\ TrackedIn(c, DeliveredBy(c, OkCount(c))) # {}
        /\ \E i \in 1..Len(received) :
              received[i].isPR = IsPR(c) /\ received[i].err = err[c]

\* category c's run has left search's loop
LoopEnded(c) == pc[c] \in {"cancel", "send", "done"}

\* C17: the first Query call of a run carries the nil cursor; each later
\* call follows a call that returned a page reporting a next page, and
\* carries that page's end cursor; the run goes on to a further call
\* exactly while the latest call returned a page reporting a next page, so
\* it makes none after a call that returned an error; and a run that ends
\* without error over n pages has made exactly n calls.
TheoremC17 ==
    \A c \in Categories :
        LET r == requests[c]
            n == Len(requests[c])
        IN /\ n >= 1 => r[1].cursor = NilCursor
           /\ \A i \in 2..n :
                 /\ r[i-1].ok
                 /\ HasNextPage(c, r[i-1].cursor)
                 /\ r[i].cursor = EndCursor(c, r[i-1].cursor)
           /\ pc[c] = "fetch" =>
                 n = 0 \/ (r[n].ok /\ HasNextPage(c, r[n].cursor))
           /\ LoopEnded(c) =>
                 /\ n >= 1
                 /\ r[n].ok => ~HasNextPage(c, r[n].cursor)
                 /\ r[n].ok <=> err[c] = Nil
                 /\ err[c] = Nil => n = Len(pages[c])
           /\ pc[c] = "none" => n = 0

\* C17's case: one run took its two pages in two calls, the second with
\* the first page's end cursor, while the other run stopped at a call that
\* returned an error after an earlier page.
WitnessC17 ==
    \E c, d \in Categories :
        /\ pc[c] = "done" /\ pc[d] = "done"
        /\ Len(pages[c]) = 2
        /\ Len(requests[c]) = 2
        /\ requests[c][2].ok
        /\ requests[c][2].cursor = EndCursor(c, NilCursor)
        /\ Len(pages[d]) = 2
        /\ Len(requests[d]) = 2
        /\ ~requests[d][2].ok

\* C18: when a run returns from search without error, each of its two
\* buffers is the sequence of the items of the delivered nodes that
\* survive extraction and the filters and have the buffer's
\* classification, in delivery order (pages in fetch order, nodes in page
\* order); and on a successful Scan each bucket of a running category is
\* that same sequence.
TheoremC18 ==
    /\ \A c \in Categories :
          (Scanning /\ pc[c] = "send" /\ err[c] = Nil) =>
              /\ OkCount(c) = Len(pages[c])
              /\ external[c] = Kept(c, Delivered(c), FALSE)
              /\ internal[c] = Kept(c, Delivered(c), TRUE)
    /\ Succeeded =>
          \A c \in Running : \A isInternal \in BOOLEAN :
              res[BucketOf(c, isInternal)] = Kept(c, Delivered(c), isInternal)

\* C18's case: a successful Scan in which a bucket holds several items of
\* a run's first page followed by items of its different second page.
WitnessC18 ==
    /\ Succeeded
    /\ \E c \in Running : \E isInternal \in BOOLEAN :
          /\ Len(pages[c]) = 2
          /\ pages[c][1] # pages[c][2]
          /\ Len(Kept(c, DeliveredBy(c, 1), isInternal)) >= 2
          /\ Len(res[BucketOf(c, isInternal)])
                > Len(Kept(c, DeliveredBy(c, 1), isInternal))

\* a step that is the start of a Scan call
ScanCalled == pcO \in {"idle", "returned"} /\ pcO' = "recv"

\* C19: in every Scan each category has at most one worker, started at the
\* start of the Scan exactly when the category is enabled and never
\* started again before the next Scan call; a category that is not enabled
\* has no worker, no Query call and no segment, and its two buckets are
\* empty.
TheoremC19 ==
    /\ [](Scanning =>
            \A c \in Categories :
               /\ spawns[c] = (IF Include(scn.cfg, c) THEN 1 ELSE 0)
               /\ pc[c] # "none" <=> spawns[c] = 1
               /\ ~Include(scn.cfg, c) =>
                     /\ requests[c] = <<>>
                     /\ SegmentsOf(c) = {}
                     /\ res[BucketOf(c, TRUE)] = <<>>
                     /\ res[BucketOf(c, FALSE)] = <<>>)
    /\ [](Cardinality(Spawned) <= 2)
    /\ [][\A c \in Categories :
             \/ ScanCalled
             \/ /\ spawns'[c] = spawns[c]
                /\ pc[c] = "none" => pc'[c] = "none"
                /\ pc[c] = "done" => pc'[c] = "done"]_vars

\* C19's case: a second Scan of a Scanner with pull requests only has
\* succeeded with pull requests in its buckets and nothing of issues.
WitnessC19 ==
    /\ Succeeded
    /\ prev # <<>>
    /\ ~scn.cfg.IncludeIssues
    /\ spawns = [c \in Categories |-> IF IsPR(c) THEN 1 ELSE 0]
    /\ res.ExternalPRs # <<>>
    /\ requests["issue"] = <<>>
    /\ Len(requests["pr"]) = 2

\* the error of a Query call that returned no page
RequestError(c, r) ==
    IF r.ctxDone THEN Canceled ELSE TransportError(c, r.cursor)

\* the segment of category c's run, from the Config, the pages and the
\* outcomes of the run's Query calls alone
SegmentFrom(c) ==
    LET last == requests[c][Len(requests[c])] IN
    IF last.ok
    THEN [external |-> Kept(c, Delivered(c), FALSE),
          internal |-> Kept(c, Delivered(c), TRUE),
          repos |-> TrackedIn(c, Delivered(c)),
          isPR |-> IsPR(c), err |-> Nil]
    ELSE [external |-> <<>>, internal |-> <<>>, repos |-> {},
          isPR |-> IsPR(c), err |-> RequestError(c, last)]

\* the categories whose segment Scan has merged
Merged ==
    {c \in Categories :
        \E i \in 1..Len(received) :
           received[i].isPR = IsPR(c) /\ received[i].err = Nil}

\* the error of the segment Scan received last, if it has one
ErrorFrom ==
    IF received # <<>> /\ received[Len(received)].err # Nil
    THEN SegmentFrom(IF received[Len(received)].isPR THEN "pr" ELSE "issue").err
    ELSE Nil

\* the Result of a Scan that has returned, from the Config, the pages, the
\* outcomes of the Query calls and the order of the segments alone
ResultFrom ==
    LET bucket(c, isInternal) ==
            IF c \in Merged THEN Kept(c, Delivered(c), isInternal) ELSE <<>>
    IN [ExternalIssues |-> bucket("issue", FALSE),
        InternalIssues |-> bucket("issue", TRUE),
        ExternalPRs |-> bucket("pr", FALSE),
        InternalPRs |-> bucket("pr", TRUE),
        TotalRepos |-> IF ErrorFrom = Nil
                       THEN Cardinality(UNION {TrackedIn(c, Delivered(c)) :
                                                  c \in Merged})
                       ELSE 0,
        IncludeIssues |-> scn.cfg.IncludeIssues,
        IncludePRs |-> scn.cfg.IncludePRs,
        Audience |-> scn.cfg.Audience]

\* the logger calls of category c's run: one for each Query call that
\* returned a page, with the page's node count and the API's total
HookCalls(c) ==
    [i \in 1..OkCount(c) |->
        [items |-> Len(PageNodes(IsPR(c), pages[c][i])),
         total |-> Len(pages[c])]]

\* C20: with or without a logger, the Query calls of a run carry the
\* cursors 0, 1, ... of the pages in turn, and the Result and the error
\* Scan returns are the ones determined by the Config, the pages, the
\* outcomes of the runs' Query calls and the order in which the segments
\* arrived; none of these depends on the logger, so a Scan with a logger
\* and one without, on the same Config and the same page and error
\* sequences, make the same calls and return the same.  A logger is called once after each Query
\* call that returned a page, in order, and never after one that failed;
\* without a logger nothing is called.
TheoremC20 ==
    /\ \A c \in Categories :
          /\ \A i \in 1..Len(requests[c]) : requests[c][i].cursor = i - 1
          /\ logCalls[c] = IF scn.built /\ scn.logger THEN HookCalls(c)
                           ELSE <<>>
    /\ Returned => res = ResultFrom /\ retErr = ErrorFrom

\* C20's case: a Scan with a logger has returned an error; one run took a
\* page and then failed, the logger having been called for the page only,
\* and the other run's pages are in the Result.
WitnessC20 ==
    /\ Returned
    /\ scn.logger
    /\ retErr # Nil
    /\ Merged # {}
    /\ \E b \in BucketNames : res[b] # <<>>
    /\ \E c \in Categories :
          /\ Len(requests[c]) = 2
          /\ ~requests[c][2].ok
          /\ Len(logCalls[c]) = 1

-----------------------------------------------------------------------------
(* Claim C21 *)

\* a node category c's run rejects: its identity field or its repository
\* name is empty, or the repository name lacks the configured prefix
Rejected(c, node) ==
    \/ Frag(c, node).ID = ""
    \/ Frag(c, node).Repo = <<>>
    \/ ~HasPrefix(Frag(c, node).Repo, scn.cfg.RepoPrefix)

\* the nodes among nodes that category c's run rejects
RejectedIn(c, nodes) ==
    {nodes[i] : i \in {j \in 1..Len(nodes) : Rejected(c, nodes[j])}}

\* the repositories of the nodes among nodes that are not rejected
AcceptedRepos(c, nodes) ==
    {Frag(c, nodes[i]).Repo : i \in {j \in 1..Len(nodes) : ~Rejected(c, nodes[j])}}

\* the items of a run's two buffers
Buffered(c) == Range(external[c]) \cup Range(internal[c])

\* C21: a run that has fetched all its pages has ended without error
\* whatever rejected nodes they held; its repo set holds the repositories
\* of the nodes it did not reject and no other, its buffers hold the item
\* of no rejected node, and every node that survives the filters, before
\* or after a rejected node, is in its buffers.  On a successful Scan no
\* bucket holds the item of a rejected node and TotalRepos counts the
\* repositories of the nodes not rejected.
TheoremC21 ==
    /\ \A c \in Categories :
          (Scanning /\ pc[c] = "send" /\ OkCount(c) = Len(pages[c])) =>
              LET nodes == Delivered(c) IN
              /\ err[c] = Nil
              /\ repos[c] = AcceptedRepos(c, nodes)
              /\ \A node \in RejectedIn(c, nodes) :
                    ItemOf(c, node) \notin Buffered(c)
              /\ \A node \in Range(nodes) :
                    Survives(c, node) => ItemOf(c, node) \in Buffered(c)
    /\ Succeeded =>
          /\ \A c \in Running :
                \A node \in RejectedIn(c, Delivered(c)) :
                   ItemOf(c, node) \notin AllItems
          /\ res.TotalRepos =
                Cardinality(UNION {AcceptedRepos(c, Delivered(c)) :
                                      c \in Running})

\* C21's case: both categories ran over one page of shape 1, which holds a
\* node without identity on RepoPB, a node of the other kind and a node
\* whose repository lacks the prefix; the Scan succeeded, counts RepoPA
\* alone, and holds the node that follows the rejected ones.
WitnessC21 ==
    /\ Succeeded
    /\ Running = Categories
    /\ \A c \in Categories : pages[c] = <<1>>
    /\ \A c \in Categories : Cardinality(RejectedIn(c, Delivered(c))) = 3
    /\ res.TotalRepos = 1
    /\ \E it \in Range(res.ExternalIssues) : it.Number = 7

====
